---- MODULE Spec2Model ----
(***************************************************************************)
(* Model of histogram_nd.c: an N-dimensional histogram filter.             *)
(*                                                                         *)
(* main() parses the options, allocates the flattened counter array,       *)
(* import() bins every input tuple, output() renders the array as text     *)
(* lines or as raw 8/16 bit samples.                                       *)
(*                                                                         *)
(* Doubles are modelled as binary floating-point numbers m * 2^e with a    *)
(* significand of MantBits bits and round-to-nearest-even after every      *)
(* arithmetic operation, as IEEE-754 does with 53 bits.                    *)
(*                                                                         *)
(* What goes to stderr only (min_ob, max_ob, verbose, the messages) is     *)
(* not part of the state.  A printed text line is recorded by the bin      *)
(* whose midpoint it shows and by the value that follows it.               *)
(***************************************************************************)
EXTENDS Integers, Naturals, Sequences, FiniteSets, TLC

\* ---------------------------------------------------------------- bounds
MantBits   == 4      \* significand width of the modelled double
MaxRecords == 3      \* number of input lines read before end of file
MaxBins    == 3      \* largest bin count the odometer is run over

\* ------------------------------------------------------ program constants
MAX_DIM == 100
INT_MAX == 2147483647

\* --------------------------------------------------------------- helpers
RECURSIVE Pow2(_)
Pow2(n) == IF n <= 0 THEN 1 ELSE 2 * Pow2(n - 1)

MAX(x, y) == IF x > y THEN x ELSE y
MIN(x, y) == IF x < y THEN x ELSE y

\* ------------------------------------------------- floating-point numbers
\* A double is [m, e] standing for m * 2^e, kept canonical (m odd, or 0).
RECURSIVE Canon(_, _)
Canon(m, e) ==
    IF m = 0 THEN [m |-> 0, e |-> 0]
    ELSE IF m % 2 = 0 THEN Canon(m \div 2, e + 1)
    ELSE [m |-> m, e |-> e]

\* scale n/d (n > 0, d > 0) into [2^(MantBits-1), 2^MantBits)
RECURSIVE Norm(_, _, _)
Norm(n, d, e) ==
    IF n >= Pow2(MantBits) * d THEN Norm(n, 2 * d, e + 1)
    ELSE IF n < Pow2(MantBits - 1) * d THEN Norm(2 * n, d, e - 1)
    ELSE <<n, d, e>>

\* the double nearest to the rational n/d (d > 0), ties to even
RoundRat(n, d) ==
    IF n = 0 THEN Canon(0, 0)
    ELSE LET a  == IF n < 0 THEN -n ELSE n
             t  == Norm(a, d, 0)
             q  == t[1] \div t[2]
             r  == t[1] % t[2]
             up == (2 * r > t[2]) \/ (2 * r = t[2] /\ q % 2 = 1)
             m  == IF up THEN q + 1 ELSE q
         IN  Canon(IF n < 0 THEN -m ELSE m, t[3])

\* conversion of an integer to double
ToDouble(k) == RoundRat(k, 1)

\* exact numerator of x - y over the common exponent MIN(x.e, y.e)
DiffNum(x, y) ==
    LET e0 == MIN(x.e, y.e)
    IN  x.m * Pow2(x.e - e0) - y.m * Pow2(y.e - e0)

FLess(x, y) == DiffNum(x, y) < 0
FGeq(x, y)  == ~FLess(x, y)

\* x - y in double arithmetic
FSub(x, y) ==
    LET e0 == MIN(x.e, y.e)
        n  == DiffNum(x, y)
    IN  IF e0 >= 0 THEN RoundRat(n * Pow2(e0), 1)
        ELSE RoundRat(n, Pow2(-e0))

\* x / y in double arithmetic (y > 0)
FDiv(x, y) ==
    RoundRat(x.m * Pow2(x.e - y.e), y.m * Pow2(y.e - x.e))

\* (int)floor(x)
Floor(x) ==
    IF x.e >= 0 THEN x.m * Pow2(x.e) ELSE x.m \div Pow2(-x.e)

\* ------------------------------------------------------------ input sets
\* H is a power of two; H - 1 is the largest double below it.
H == Pow2(MantBits)

\* coordinates that may appear in an input line
Vals == {ToDouble(k) : k \in {-2 * H, -H, H \div 2, H - 1, H}}

\* number of <l, h, w> triples the model's arrays hold
NDim == 3
Dim  == 0 .. NDim - 1

\* -d arguments
DimArgs == {0, 1, 2, MAX_DIM}

\* <-l, -h, -w> triples given on the command line
Triples ==
    { [low |-> ToDouble(-H), hi |-> ToDouble(H), bins |-> 3],
      [low |-> ToDouble(0),  hi |-> ToDouble(0), bins |-> 1],
      [low |-> ToDouble(0),  hi |-> ToDouble(H), bins |-> 0] }

ZeroTriple == [low |-> ToDouble(0), hi |-> ToDouble(0), bins |-> 0]

\* command lines: the triples beyond the given ones stay zero-initialised
Argv ==
    { a \in [ dims : DimArgs, tr : [Dim -> Triples \cup {ZeroTriple}],
              relative : BOOLEAN, omit : BOOLEAN,
              raw8 : BOOLEAN, raw16 : BOOLEAN, extra : BOOLEAN ] :
        \A d \in Dim :
            (a.tr[d] = ZeroTriple) <=> ~(a.dims \in 1 .. NDim /\ d < a.dims) }

\* ----------------------------------------------------------------- state
VARIABLES
    pc,               \* where the process is: "start", "import", "output",
                      \* "emit", "done", "exit", "crashed"; "adv", "advdone"
    status,           \* exit status of the process
    low, hi, size,    \* specified limits
    bins, dims, relative, omit_outer_zero, raw8, raw16,
    min_bin_seen, max_bin_seen,
    field,            \* the flattened counter array, index 0 .. temp-1
    count, oor, line_nr,
    pos, max,         \* locals of output()
    out               \* what was written to stdout

vars == <<pc, status, low, hi, size, bins, dims, relative,
          omit_outer_zero, raw8, raw16, min_bin_seen, max_bin_seen, field,
          count, oor, line_nr, pos, max, out>>

DimsOf == 0 .. dims - 1

Init ==
    /\ pc = "start"
    /\ status = 0
    /\ low = [d \in Dim |-> ToDouble(0)]
    /\ hi = [d \in Dim |-> ToDouble(0)]
    /\ size = [d \in Dim |-> ToDouble(0)]
    /\ bins = [d \in Dim |-> 0]
    /\ dims = 1
    /\ relative = FALSE
    /\ omit_outer_zero = FALSE
    /\ raw8 = FALSE
    /\ raw16 = FALSE
    /\ min_bin_seen = [d \in Dim |-> 0]
    /\ max_bin_seen = [d \in Dim |-> 0]
    /\ field = <<>>
    /\ count = 0
    /\ oor = 0
    /\ line_nr = 0
    /\ pos = [d \in Dim |-> 0]
    /\ max = 0
    /\ out = <<>>

\* ---------------------------------------------------------- parseOptions
\* the sanity checks after the option loop; TRUE means "return 1"
parseOptions(a) ==
    \/ a.extra
    \/ a.dims < 1 \/ a.dims >= MAX_DIM
    \/ (a.raw8 \/ a.raw16) /\ (a.dims # 2 \/ ~a.relative)
    \/ a.raw8 /\ a.raw16
    \/ \E d \in 0 .. a.dims - 1 :
           FGeq(a.tr[d].low, a.tr[d].hi) \/ a.tr[d].bins < 1

\* product of the bin counts: the size of the histogram buffer
RECURSIVE Temp(_, _)
Temp(b, n) == IF n = 0 THEN 1 ELSE Temp(b, n - 1) * b[n - 1]

\* main() up to the call of import()
Main(a) ==
    /\ pc = "start"
    /\ low' = [d \in Dim |-> a.tr[d].low]
    /\ hi' = [d \in Dim |-> a.tr[d].hi]
    /\ bins' = [d \in Dim |-> a.tr[d].bins]
    /\ dims' = a.dims
    /\ relative' = a.relative
    /\ omit_outer_zero' = a.omit
    /\ raw8' = a.raw8
    /\ raw16' = a.raw16
    /\ IF parseOptions(a)
       THEN /\ pc' = "exit"
            /\ status' = 1
            /\ UNCHANGED <<size, min_bin_seen, max_bin_seen,
                           field>>
       ELSE /\ pc' = "import"
            /\ status' = 0
            /\ size' = [d \in Dim |->
                          IF d < a.dims
                          THEN FDiv(FSub(a.tr[d].hi, a.tr[d].low),
                                    ToDouble(a.tr[d].bins))
                          ELSE size[d]]
            /\ field' = [i \in 0 .. Temp(bins', a.dims) - 1 |-> 0]
            /\ min_bin_seen' = [d \in Dim |->
                                  IF d < a.dims THEN INT_MAX ELSE min_bin_seen[d]]
            /\ max_bin_seen' = [d \in Dim |->
                                  IF d < a.dims THEN -1 ELSE max_bin_seen[d]]
    /\ UNCHANGED <<count, oor, line_nr, pos, max, out>>

\* ------------------------------------------------------ set_pos / get_pos
\* flattened address of a position: sum of p[dim] * offset
RECURSIVE Ind(_, _, _)
Ind(p, sz, n) ==
    IF n = 0 THEN 0
    ELSE Ind(p, sz, n - 1) + p[n - 1] * Temp(sz, n - 1)

get_pos(f, n, sz, p) == f[Ind(p, sz, n)]

\* the field after set_pos
set_pos(f, value, n, sz, p) == [f EXCEPT ![Ind(p, sz, n)] = value]

\* the min / max bins after set_pos
SeenMin(p) ==
    [d \in Dim |-> IF d < dims /\ p[d] < min_bin_seen[d]
                   THEN p[d] ELSE min_bin_seen[d]]
SeenMax(p) ==
    [d \in Dim |-> IF d < dims /\ p[d] > max_bin_seen[d]
                   THEN p[d] ELSE max_bin_seen[d]]

\* ---------------------------------------------------------------- import
\* convert a value to its bin address
BinOf(v, d) == Floor(FDiv(FSub(v, low[d]), size[d]))

InRange(vals) ==
    \A d \in DimsOf : FGeq(vals[d], low[d]) /\ FLess(vals[d], hi[d])

\* the tail of import() after the read loop, and the return to main()
ExitImport ==
    IF count - oor <= 0
    THEN pc' = "exit" /\ status' = 1
    ELSE pc' = "output" /\ UNCHANGED status

\* fgets() returns NULL
ImportEOF ==
    /\ pc = "import"
    /\ ExitImport
    /\ UNCHANGED <<low, hi, size, bins, dims, relative,
                   omit_outer_zero, raw8, raw16, min_bin_seen, max_bin_seen,
                   field, count, oor, line_nr, pos, max, out>>

\* a line starting with '#'
ImportComment ==
    /\ pc = "import"
    /\ line_nr < MaxRecords
    /\ line_nr' = line_nr + 1
    /\ UNCHANGED <<pc, status, low, hi, size, bins, dims,
                   relative, omit_outer_zero, raw8, raw16, min_bin_seen,
                   max_bin_seen, field, count, oor, pos, max, out>>

\* a line with fewer than dims numbers: "Stopping import here ..."
ImportParseError ==
    /\ pc = "import"
    /\ line_nr < MaxRecords
    /\ line_nr' = line_nr + 1
    /\ ExitImport
    /\ UNCHANGED <<low, hi, size, bins, dims, relative,
                   omit_outer_zero, raw8, raw16, min_bin_seen, max_bin_seen,
                   field, count, oor, pos, max, out>>

\* a line with dims numbers
ImportTuple ==
    /\ pc = "import"
    /\ line_nr < MaxRecords
    /\ \E vals \in [DimsOf -> Vals] :
          IF InRange(vals)
          THEN LET p == [d \in DimsOf |-> BinOf(vals[d], d)]
               IN  IF Ind(p, bins, dims) \in DOMAIN field
                   THEN /\ field' = set_pos(field,
                                            get_pos(field, dims, bins, p) + 1,
                                            dims, bins, p)
                        /\ min_bin_seen' = SeenMin(p)
                        /\ max_bin_seen' = SeenMax(p)
                        /\ count' = count + 1
                        /\ UNCHANGED <<pc, oor>>
                   \* field[ind] lies outside the allocated buffer: the
                   \* access either faults or hits memory that is not part
                   \* of the field
                   ELSE \/ /\ pc' = "crashed"
                           /\ UNCHANGED <<field, min_bin_seen, max_bin_seen,
                                          count, oor>>
                        \/ /\ min_bin_seen' = SeenMin(p)
                           /\ max_bin_seen' = SeenMax(p)
                           /\ count' = count + 1
                           /\ UNCHANGED <<pc, field, oor>>
          ELSE /\ oor' = oor + 1
               /\ count' = count + 1
               /\ UNCHANGED <<pc, field, min_bin_seen, max_bin_seen>>
    /\ line_nr' = line_nr + 1
    /\ UNCHANGED <<status, low, hi, size, bins, dims, relative,
                   omit_outer_zero, raw8, raw16, pos, max, out>>

\* --------------------------------------------------------------- adv_pos
\* advance a position, lowest dimension first; ret # 0 on overflow
RECURSIVE AdvLoop(_, _, _)
AdvLoop(n, p, dim) ==
    IF dim >= n THEN [pos |-> p, ret |-> 1]
    ELSE IF p[dim] + 1 >= bins[dim]
         THEN AdvLoop(n, [p EXCEPT ![dim] = 0], dim + 1)
         ELSE [pos |-> [p EXCEPT ![dim] = p[dim] + 1], ret |-> 0]

\* variant: the highest dimension is advanced first
RECURSIVE AdvLoopHi(_, _, _)
AdvLoopHi(n, p, dim) ==
    IF dim < 0 THEN [pos |-> p, ret |-> 1]
    ELSE IF p[dim] + 1 >= bins[dim]
         THEN AdvLoopHi(n, [p EXCEPT ![dim] = 0], dim - 1)
         ELSE [pos |-> [p EXCEPT ![dim] = p[dim] + 1], ret |-> 0]

adv_pos_hi(n, p) == AdvLoopHi(n, p, n - 1)

adv_pos(n, p) == AdvLoop(n, p, 0)

\* ---------------------------------------------------------------- output
\* "compute max now": the do-while over the whole field
RECURSIVE MaxScan(_, _)
MaxScan(p, m) ==
    LET m2 == MAX(m, get_pos(field, dims, bins, p))
        r  == adv_pos(dims, p)
    IN  IF r.ret # 0 THEN m2 ELSE MaxScan(r.pos, m2)

\* "fixup min / max bins to allow one outer occurrence of 0"
\* variant: no empty border bin is kept below the occupied range
FixupMinNone == min_bin_seen

FixupMin ==
    [d \in Dim |-> IF d < dims /\ min_bin_seen[d] > 0
                   THEN min_bin_seen[d] - 1 ELSE min_bin_seen[d]]
FixupMax ==
    [d \in Dim |-> IF d < dims /\ max_bin_seen[d] < bins[d] - 1
                   THEN max_bin_seen[d] + 1 ELSE max_bin_seen[d]]

\* output() up to the first pass of the while(1) loop
OutputPrepare ==
    /\ pc = "output"
    /\ max' = IF raw8 \/ raw16 THEN MaxScan([d \in Dim |-> 0], 0) ELSE 0
    /\ min_bin_seen' = FixupMin
    /\ max_bin_seen' = FixupMax
    /\ pos' = [d \in Dim |-> IF d < dims /\ omit_outer_zero
                             THEN FixupMin[d] ELSE 0]
    /\ pc' = "emit"
    /\ UNCHANGED <<status, low, hi, size, bins, dims, relative,
                   omit_outer_zero, raw8, raw16, field, count, oor, line_nr,
                   out>>

\* what the conversion of NaN (0.0 / 0) to an unsigned integer may yield
NaNSample(full) == {0, full}

\* (uint)((double)value / max * full) for max > 0.  With 53 significand
\* bits the truncated product equals the exact quotient for every count
\* below 6000, so it is computed exactly here.
\* variant: the scaled value is rounded to the nearest integer
ScaleRound(value, full) == (2 * value * full + max) \div (2 * max)

Scale(value, full) == (value * full) \div max

\* the bytes write() sends for one sample
Bytes8(n)  == << <<"byte", n>> >>
Bytes16(n) == << <<"byte", n \div 256>>, <<"byte", n % 256>> >>

\* one pass of the while(1) loop in raw mode
OutputRaw ==
    /\ pc = "emit"
    /\ raw8 \/ raw16
    /\ LET full == IF raw8 THEN 255 ELSE 65535
           v    == get_pos(field, dims, bins, pos)
           r    == adv_pos(dims, pos)
       IN  /\ \E n \in (IF max = 0 THEN NaNSample(full) ELSE {Scale(v, full)}) :
                 out' = out \o (IF raw8 THEN Bytes8(n) ELSE Bytes16(n))
           /\ pos' = r.pos
           /\ pc' = IF r.ret # 0 THEN "done" ELSE "emit"
    /\ UNCHANGED <<status, low, hi, size, bins, dims, relative,
                   omit_outer_zero, raw8, raw16, min_bin_seen, max_bin_seen,
                   field, count, oor, line_nr, max>>

\* variant: the spacer line is printed when dimension 0 overflows
RECURSIVE TextLoopDim0(_, _, _)
TextLoopDim0(p, dim, nl) ==
    IF dim < 0 THEN [pos |-> p, fin |-> TRUE, nl |-> nl]
    ELSE IF p[dim] + 1 >= bins[dim]
            \/ (omit_outer_zero /\ p[dim] + 1 > max_bin_seen[dim])
         THEN TextLoopDim0([p EXCEPT ![dim] = IF omit_outer_zero
                                              THEN min_bin_seen[dim] ELSE 0],
                           dim - 1, nl \/ dim = 0)
         ELSE [pos |-> [p EXCEPT ![dim] = p[dim] + 1], fin |-> FALSE,
               nl |-> nl]

\* "update pos and maybe print a spacer line": highest dimension first
RECURSIVE TextLoop(_, _, _)
TextLoop(p, dim, nl) ==
    IF dim < 0 THEN [pos |-> p, fin |-> TRUE, nl |-> nl]
    ELSE IF p[dim] + 1 >= bins[dim]
            \/ (omit_outer_zero /\ p[dim] + 1 > max_bin_seen[dim])
         THEN TextLoop([p EXCEPT ![dim] = IF omit_outer_zero
                                          THEN min_bin_seen[dim] ELSE 0],
                       dim - 1, nl \/ dim = dims - 1)
         ELSE [pos |-> [p EXCEPT ![dim] = p[dim] + 1], fin |-> FALSE,
               nl |-> nl]

\* one printed line: the bin whose midpoint is printed, and the value
\* (the count, or the count and the divisor of the relative frequency)
Line(p) ==
    <<"line", [d \in DimsOf |-> p[d]],
      IF relative THEN <<get_pos(field, dims, bins, p), count>>
      ELSE get_pos(field, dims, bins, p)>>

Blank == <<"blank">>

\* one pass of the while(1) loop in text mode
OutputText ==
    /\ pc = "emit"
    /\ ~(raw8 \/ raw16)
    /\ LET r == TextLoop(pos, dims - 1, FALSE)
       IN  /\ out' = out \o <<Line(pos)>> \o (IF r.nl THEN <<Blank>> ELSE <<>>)
           /\ pos' = r.pos
           /\ pc' = IF r.fin THEN "done" ELSE "emit"
    /\ UNCHANGED <<status, low, hi, size, bins, dims, relative,
                   omit_outer_zero, raw8, raw16, min_bin_seen, max_bin_seen,
                   field, count, oor, line_nr, max>>

Next ==
    \/ \E a \in Argv : Main(a)
    \/ ImportEOF
    \/ ImportComment
    \/ ImportParseError
    \/ ImportTuple
    \/ OutputPrepare
    \/ OutputRaw
    \/ OutputText

Spec == Init /\ [][Next]_vars

\* ------------------------------------------- adv_pos as a pure function
\* adv_pos is called from the all-zero position until it reports overflow,
\* as the "compute max" pass of output() does, over any bounds bins[0..dims).
InitAdv ==
    /\ pc = "adv"
    /\ status = 0
    /\ low = [d \in Dim |-> ToDouble(0)]
    /\ hi = [d \in Dim |-> ToDouble(0)]
    /\ size = [d \in Dim |-> ToDouble(0)]
    /\ dims \in 1 .. NDim
    /\ bins \in [Dim -> 0 .. MaxBins]
    /\ \A d \in Dim : (bins[d] = 0) <=> (d >= dims)
    /\ relative = FALSE
    /\ omit_outer_zero = FALSE
    /\ raw8 = FALSE
    /\ raw16 = FALSE
    /\ min_bin_seen = [d \in Dim |-> 0]
    /\ max_bin_seen = [d \in Dim |-> 0]
    /\ field = <<>>
    /\ count = 0
    /\ oor = 0
    /\ line_nr = 0
    /\ pos = [d \in Dim |-> 0]
    /\ max = 0
    /\ out = <<>>

\* one pass of "do { ... } while (! adv_pos(dims, pos))": the position
\* visited and the value adv_pos returned from it are appended to out
AdvStep ==
    /\ pc = "adv"
    /\ LET r == adv_pos(dims, pos)
       IN  /\ out' = Append(out, <<"adv", [d \in DimsOf |-> pos[d]], r.ret>>)
           /\ pos' = r.pos
           /\ pc' = IF r.ret # 0 THEN "advdone" ELSE "adv"
    /\ UNCHANGED <<status, low, hi, size, bins, dims, relative,
                   omit_outer_zero, raw8, raw16, min_bin_seen, max_bin_seen,
                   field, count, oor, line_nr, max>>

NextAdv == AdvStep

SpecAdv == InitAdv /\ [][NextAdv]_vars

\* ======================================================================
\* Properties
\* ======================================================================
Total == Temp(bins, dims)

\* index of dimension d in the cell with flattened address i
Digit(i, d) == (i \div Temp(bins, d)) % bins[d]

RECURSIVE SumTo(_, _)
SumTo(f, n) == IF n = 0 THEN 0 ELSE SumTo(f, n - 1) + f[n - 1]

FieldSum == SumTo(field, Cardinality(DOMAIN field))

Accepted == count - oor

RawMode == raw8 \/ raw16

NonZeroCells == {i \in DOMAIN field : field[i] > 0}

\* ---------------------------------------------------------------------
\* C1: conservation: the sum of all histogram cells equals the number of
\* accepted tuples (total read minus rejected), at every point of a run.
C1_Conservation == FieldSum = Accepted

\* ---------------------------------------------------------------------
\* C2: for every value v with low_d <= v < high_d the computed bin index
\* floor((v - low_d) / bin_width_d) lies in 0 .. bin_count_d - 1; the value
\* low_d goes to bin 0 and the value high_d is not in range.
C2_BinIndexInRange ==
    pc = "import" =>
        \A d \in DimsOf :
            /\ \A v \in Vals :
                   (FGeq(v, low[d]) /\ FLess(v, hi[d]))
                       => BinOf(v, d) \in 0 .. bins[d] - 1
            /\ BinOf(low[d], d) = 0
            /\ ~FLess(hi[d], hi[d])

\* ---------------------------------------------------------------------
\* C3: from the all-zero position adv_pos visits every index tuple exactly
\* once with dimension 0 fastest, returns 0 on every call but the one made
\* from the last tuple, returns non-zero on that one and leaves the position
\* all zero; over bounds [2,3] the order is (0,0),(1,0),(0,1),(1,1),(0,2),(1,2).
Tuple(i) == [d \in DimsOf |-> Digit(i, d)]

T2(a, b) == [d \in 0 .. 1 |-> IF d = 0 THEN a ELSE b]

Visited == [i \in 1 .. Len(out) |-> out[i][2]]

C3_OdometerOrder ==
    pc \in {"adv", "advdone"} =>
        /\ Len(out) <= Total
        /\ \A i \in 1 .. Len(out) :
               out[i] = <<"adv", Tuple(i - 1), IF i = Total THEN 1 ELSE 0>>
        /\ (pc = "advdone") <=> (Len(out) = Total)
        /\ pc = "adv" => \A d \in DimsOf : pos[d] = Digit(Len(out), d)
        /\ pc = "advdone" =>
               /\ \A d \in DimsOf : pos[d] = 0
               /\ {out[i][2] : i \in 1 .. Len(out)}
                      = {t \in [DimsOf -> 0 .. MaxBins] :
                             \A d \in DimsOf : t[d] < bins[d]}
               /\ \A i, j \in 1 .. Len(out) : out[i][2] = out[j][2] => i = j
               /\ (dims = 2 /\ bins[0] = 2 /\ bins[1] = 3) =>
                      Visited = <<T2(0, 0), T2(1, 0), T2(0, 1),
                                  T2(1, 1), T2(0, 2), T2(1, 2)>>

C3_Witness ==
    /\ pc = "advdone"
    /\ dims = 2 /\ bins[0] = 2 /\ bins[1] = 3
    /\ Len(out) = 6

\* ---------------------------------------------------------------------
\* C4: a finished raw run has written exactly product(bin_count) samples
\* of 1 (raw8) or 2 (raw16) bytes.
C4_RawLength ==
    (pc = "done" /\ RawMode) =>
        Len(out) = Total * (IF raw8 THEN 1 ELSE 2)

\* ---------------------------------------------------------------------
\* C5 (as stated): every raw sample is round(value / max * full) with
\* full = 255 for raw8 and 65535 for raw16.
RoundDiv(a, b) == (2 * a + b) \div (2 * b)

\* the sample a raw step has just written
LastSample ==
    IF raw8 THEN out'[Len(out')][2]
    ELSE out'[Len(out') - 1][2] * 256 + out'[Len(out')][2]

Full == IF raw8 THEN 255 ELSE 65535

RawStep == pc = "emit" /\ RawMode /\ out' # out

C5_RawRounded ==
    [][(RawStep /\ max > 0) =>
          LastSample = RoundDiv(get_pos(field, dims, bins, pos) * Full, max)]_vars

\* C5 (amended): every raw sample is value / max * full truncated toward
\* zero whenever max >= 1; a cell equal to max gives full, an empty cell 0.
C5_RawTruncated ==
    [][(RawStep /\ max > 0) =>
          LET v == get_pos(field, dims, bins, pos)
          IN  /\ LastSample = (v * Full) \div max
              /\ v = max => LastSample = Full
              /\ v = 0 => LastSample = 0]_vars

C5_Witness ==
    /\ pc \in {"emit", "done"}
    /\ raw8
    /\ max = 2
    /\ \E i \in 1 .. Len(out) : out[i] = <<"byte", 127>>

\* ---------------------------------------------------------------------
\* C6: every invalid configuration is rejected before any input is read,
\* with a non-zero exit status and no output.
InvalidConfig ==
    \/ dims < 1 \/ dims >= MAX_DIM
    \/ \E d \in Dim : d < dims /\ (FGeq(low[d], hi[d]) \/ bins[d] < 1)
    \/ raw8 /\ raw16
    \/ RawMode /\ (~relative \/ dims # 2)
    \/ omit_outer_zero /\ RawMode

C6_InvalidConfigRejected ==
    (pc \notin {"start", "adv", "advdone"} /\ InvalidConfig) =>
        /\ pc = "exit"
        /\ status # 0
        /\ line_nr = 0
        /\ out = <<>>

\* ---------------------------------------------------------------------
\* C7: text mode prints one line per index tuple of the rendering window,
\* each exactly once, last dimension fastest, and stops after the last one;
\* the window is the full range without boundary trimming and, with it,
\* [max(min_seen - 1, 0), min(max_seen + 1, bin_count - 1)] per dimension.
IsLine(x) == x[1] = "line"

Lines == SelectSeq(out, IsLine)

WinLo(d) == IF omit_outer_zero THEN min_bin_seen[d] ELSE 0
WinHi(d) == IF omit_outer_zero THEN MIN(max_bin_seen[d], bins[d] - 1)
            ELSE bins[d] - 1
WinW(d)  == WinHi(d) - WinLo(d) + 1

\* number of window tuples that share the indices of dimensions 0 .. d
RECURSIVE Inner(_)
Inner(d) == IF d >= dims - 1 THEN 1 ELSE WinW(d + 1) * Inner(d + 1)

WinCount == WinW(0) * Inner(0)

\* the i-th tuple of the window, counting from 0, last dimension fastest
WinTuple(i) == [d \in DimsOf |-> WinLo(d) + ((i \div Inner(d)) % WinW(d))]

C7_LinesFollowWindow ==
    (pc \in {"emit", "done"} /\ ~RawMode) =>
        /\ Len(Lines) <= WinCount
        /\ \A i \in 1 .. Len(Lines) : Lines[i][2] = WinTuple(i - 1)
        /\ (pc = "done") <=> (Len(Lines) = WinCount)
        /\ pc = "emit" => \A d \in DimsOf : pos[d] = WinTuple(Len(Lines))[d]

C7_PaddedWindow ==
    (pc = "output" /\ pc' = "emit") =>
        \A d \in DimsOf :
            /\ min_bin_seen'[d] = MAX(min_bin_seen[d] - 1, 0)
            /\ MIN(max_bin_seen'[d], bins[d] - 1)
                   = MIN(max_bin_seen[d] + 1, bins[d] - 1)

C7_TextWindow == [](C7_LinesFollowWindow) /\ [][C7_PaddedWindow]_vars

C7_Witness ==
    /\ pc = "done"
    /\ ~RawMode
    /\ omit_outer_zero
    /\ dims = 2
    /\ Len(Lines) = 4
    /\ Lines[1][2] = T2(1, 1)

\* ---------------------------------------------------------------------
\* C8 (as stated): a text step prints a blank line exactly when the index
\* of dimension 0 wraps.
TextStep == pc = "emit" /\ ~RawMode /\ out' # out

BlankEmitted == out'[Len(out')] = Blank

\* dimension d wraps in a step when no index from d upwards is incremented
Wrapped(d) == \A j \in d .. dims - 1 : pos'[j] # pos[j] + 1

C8_BlankOnDim0Wrap ==
    [][TextStep => (BlankEmitted <=> Wrapped(0))]_vars

\* C8 (amended): a text step prints a blank line exactly when the index of
\* the last dimension (D - 1) wraps, and never more than one.
C8_BlankOnLastDimWrap ==
    [][TextStep =>
          /\ BlankEmitted <=> Wrapped(dims - 1)
          /\ Len(out') = Len(out) + (IF BlankEmitted THEN 2 ELSE 1)
          /\ IsLine(out'[Len(out) + 1])]_vars

C8_Witness ==
    /\ pc = "emit"
    /\ ~RawMode
    /\ dims = 2
    /\ Len(out) > 0
    /\ out[Len(out)] = Blank

\* ---------------------------------------------------------------------
\* C9: a run with no accepted tuple exits with non-zero status before the
\* output phase; so when output starts at least one tuple was accepted,
\* 0 <= min_seen <= max_seen < bin_count holds in every dimension, and the
\* maximum found in raw mode is at least 1.
C9_OutputHasData ==
    /\ pc \in {"output", "emit", "done"} => Accepted >= 1
    /\ (pc = "exit" /\ ~parseOptions([dims |-> dims,
            tr |-> [d \in Dim |-> [low |-> low[d], hi |-> hi[d], bins |-> bins[d]]],
            relative |-> relative, omit |-> omit_outer_zero, raw8 |-> raw8,
            raw16 |-> raw16, extra |-> FALSE]))
           => (Accepted <= 0 /\ status # 0 /\ out = <<>>)
    /\ pc = "output" =>
           \A d \in DimsOf :
               /\ 0 <= min_bin_seen[d]
               /\ min_bin_seen[d] <= max_bin_seen[d]
               /\ max_bin_seen[d] < bins[d]
    /\ (pc \in {"emit", "done"} /\ RawMode) => max >= 1

\* ---------------------------------------------------------------------
\* C10: once a tuple was accepted, min_seen / max_seen are the tightest
\* bounding box of the non-zero cells; after the padding step every
\* non-zero cell still lies inside [min_seen, max_seen].
C10_TightBox ==
    /\ (pc \in {"import", "output"} /\ Accepted >= 1) =>
           \A d \in DimsOf :
               /\ \A i \in NonZeroCells :
                      min_bin_seen[d] <= Digit(i, d) /\ Digit(i, d) <= max_bin_seen[d]
               /\ \E i \in NonZeroCells : Digit(i, d) = min_bin_seen[d]
               /\ \E i \in NonZeroCells : Digit(i, d) = max_bin_seen[d]
    /\ pc \in {"emit", "done"} =>
           \A d \in DimsOf : \A i \in NonZeroCells :
               min_bin_seen[d] <= Digit(i, d) /\ Digit(i, d) <= max_bin_seen[d]
====
